---- MODULE Spec2Model ----
(***************************************************************************)
(* rosdep_resolve_with_fixed_version.py as a state machine.                *)
(*                                                                         *)
(* A Python str is a sequence of one-character strings, so that the        *)
(* regular-expression searches, str.split, str.strip and the f-string      *)
(* formatting of the program are computed character by character.  A dict  *)
(* is a sequence of [key, value] records in insertion order with pairwise  *)
(* distinct keys.                                                          *)
(***************************************************************************)
EXTENDS Integers, Sequences, FiniteSets, TLC

VARIABLES
    pc,                     \* position of the run in main and its callees
    options,                \* the parsed command line options (main, 199)
    environ,                \* the names set in os.environ
    rosdep_db,              \* what `rosdep resolve` answers per key, once asked
    rosdep_packages,        \* keys listed by run_rosdep_key
    pos,                    \* number of items the current for-loop has consumed
    lines,                  \* lines of rosdep_key_and_resolve / parse_rosdep
    package_info_list,      \* parse_rosdep's list of RosdepResolvedPackageInfo
    resolved_package_list,  \* main's dict key -> RosdepResolvedPackageInfo
    manifest,               \* dependency elements of the parsed package.xml
    dependencies,           \* the extractor's dict dep.text -> version
    apt_file,               \* content of the file at options.output_apt
    pip_file,               \* content of the file at options.output_pip
    error,                  \* the exception that ended the run, if any
    runs,                   \* completed passes of the merge-and-emit step
    first_files             \* the two files as the first pass left them

vars == <<pc, options, environ, rosdep_db, rosdep_packages, pos, lines, package_info_list,
          resolved_package_list, manifest, dependencies, apt_file, pip_file,
          error, runs, first_files>>

---------------------------------------------------------------------------
(* Bounds of the model. *)

\* longest line sequence handed to parse_rosdep on its own
MaxLines == 4
\* most keys `rosdep keys` lists in a run of main
MaxKeys == 2
\* most dependency elements in the package.xml of a run of main
MaxDeps == 2
\* most dependency elements in a package.xml scanned on its own
MaxElems == 2
\* passes of the merge-and-emit step over one mapping
MaxRuns == 2

---------------------------------------------------------------------------
(* Strings. *)

NL == "\n"
SP == " "

\* code points of the characters the model's strings are made of
Ord(c) ==
    CASE c = "\n" -> 10  [] c = "\t" -> 9   [] c = " " -> 32  [] c = "#" -> 35
      [] c = "1" -> 49   [] c = "2" -> 50   [] c = "=" -> 61  [] c = "D" -> 68
      [] c = "E" -> 69   [] c = "O" -> 79   [] c = "P" -> 80  [] c = "R" -> 82
      [] c = "S" -> 83   [] c = "[" -> 91   [] c = "]" -> 93  [] c = "a" -> 97
      [] c = "b" -> 98   [] c = "c" -> 99   [] c = "f" -> 102 [] c = "i" -> 105
      [] c = "p" -> 112  [] c = "t" -> 116  [] c = "y" -> 121 [] c = "z" -> 122

Min(a, b) == IF a < b THEN a ELSE b

\* Python's str < str: the first differing code point decides, a proper prefix is smaller
StrLess(a, b) ==
    \E i \in 1..(Min(Len(a), Len(b)) + 1) :
        /\ \A j \in 1..(i - 1) : a[j] = b[j]
        /\ \/ i > Len(a) /\ i <= Len(b)
           \/ i <= Len(a) /\ i <= Len(b) /\ Ord(a[i]) < Ord(b[i])

\* s[i:i+len(p)] == p
MatchesAt(s, p, i) ==
    /\ i >= 1
    /\ i + Len(p) - 1 <= Len(s)
    /\ \A j \in 1..Len(p) : s[i + j - 1] = p[j]

RECURSIVE Split(_, _)
\* str.split(sep) for a one-character sep: empty fields are kept
Split(s, sep) ==
    IF \A i \in 1..Len(s) : s[i] # sep
    THEN <<s>>
    ELSE LET i == CHOOSE k \in 1..Len(s) :
                      s[k] = sep /\ \A j \in 1..(k - 1) : s[j] # sep
         IN  <<SubSeq(s, 1, i - 1)>> \o Split(SubSeq(s, i + 1, Len(s)), sep)

Whitespace == {" ", "\n", "\t"}

\* line.strip() != ""
NotBlank(line) == \E i \in 1..Len(line) : line[i] \notin Whitespace

RECURSIVE Filter(_)
Filter(ls) ==
    IF ls = <<>> THEN <<>>
    ELSE (IF NotBlank(Head(ls)) THEN <<Head(ls)>> ELSE <<>>) \o Filter(Tail(ls))

\* [line for line in result.stdout.split("\n") if line.strip() != ""]
NonBlankLines(stdout) == Filter(Split(stdout, NL))

RECURSIVE Flatten(_)
\* "".join(parts)
Flatten(parts) ==
    IF parts = <<>> THEN <<>> ELSE Head(parts) \o Flatten(Tail(parts))

---------------------------------------------------------------------------
(* Dicts. *)

DictKeys(d) == {d[i].key : i \in 1..Len(d)}

DictGet(d, k) == d[CHOOSE i \in 1..Len(d) : d[i].key = k].value

\* d[k] = v: a new key goes last, a known key keeps its place
DictSet(d, k, v) ==
    IF k \in DictKeys(d)
    THEN [i \in 1..Len(d) |-> IF d[i].key = k THEN [key |-> k, value |-> v] ELSE d[i]]
    ELSE Append(d, [key |-> k, value |-> v])

RECURSIVE InsertSorted(_, _)
InsertSorted(d, item) ==
    IF d = <<>> THEN <<item>>
    ELSE IF StrLess(item.key, Head(d).key) THEN <<item>> \o d
    ELSE <<Head(d)>> \o InsertSorted(Tail(d), item)

RECURSIVE SortItems(_)
\* the dict left in insertion order
SortItemsUnsorted(d) == d

\* dict(sorted(d.items())): keys are distinct, so the keys alone decide
SortItems(d) ==
    IF d = <<>> THEN <<>>
    ELSE InsertSorted(SortItems(SubSeq(d, 1, Len(d) - 1)), d[Len(d)])

---------------------------------------------------------------------------
(* parse_rosdep. *)

ROSDEP_HEAD == <<"#", "R", "O", "S", "D", "E", "P", "[">>

\* re.compile(r"#ROSDEP\[(.*?)\]").search(line): where the leftmost match starts
HeadStarts(line) ==
    {i \in 1..Len(line) :
        /\ MatchesAt(line, ROSDEP_HEAD, i)
        /\ \E j \in (i + Len(ROSDEP_HEAD))..Len(line) : line[j] = "]"}

rosdep_head_match(line) == HeadStarts(line) # {}

\* group(1): the lazy .*? stops at the first "]" after the prefix
rosdep_head_group(line) ==
    LET i == CHOOSE k \in HeadStarts(line) : \A m \in HeadStarts(line) : k <= m
        b == i + Len(ROSDEP_HEAD)
        j == CHOOSE k \in b..Len(line) :
                 line[k] = "]" /\ \A m \in b..(k - 1) : line[m] # "]"
    IN  SubSeq(line, b, j - 1)

METHOD_APT == <<"a", "p", "t">>
METHOD_PIP == <<"p", "i", "p">>

\* re.compile(r"#(apt|pip)").search(line)
MethodStarts(line) ==
    {i \in 1..Len(line) :
        /\ line[i] = "#"
        /\ \/ MatchesAt(line, METHOD_APT, i + 1)
           \/ MatchesAt(line, METHOD_PIP, i + 1)}

method_match(line) == MethodStarts(line) # {}

method_group(line) ==
    LET i == CHOOSE k \in MethodStarts(line) : \A m \in MethodStarts(line) : k <= m
    IN  SubSeq(line, i + 1, i + 3)

RosdepResolvedPackageInfo(ros_pkg_name, method, resolved_names) ==
    [ros_pkg_name |-> ros_pkg_name, method |-> method,
     resolved_names |-> resolved_names, target_versions |-> <<>>]

NoError == [msg |-> "", args |-> <<>>]

RuntimeError(msg, args) == [msg |-> msg, args |-> args]

MethodBeforeName == "Error: Method found before package name in rosdep result"
NameBeforeName == "Error: resolved package name found before package name in rosdep result"

\* the assignment made to the first element of the list instead
SetFirst(list, field, v) == [list EXCEPT ![1][field] = v]

\* package_info_list[-1].<field> = v
SetLast(list, field, v) == [list EXCEPT ![Len(list)][field] = v]

RECURSIVE ListToDict(_)
\* {package.ros_pkg_name: package for package in package_info_list}
ListToDict(list) ==
    IF list = <<>> THEN <<>>
    ELSE LET p == list[Len(list)]
         IN  DictSet(ListToDict(SubSeq(list, 1, Len(list) - 1)), p.ros_pkg_name, p)

\* where main goes once parse_rosdep has returned (line 219)
AfterParse == IF options.fixed_package_xml # "" THEN "parse_xml" ELSE "output_apt"

\* a names line before any header is passed over instead of raising
ParseStepLenient(list, line) ==
    IF rosdep_head_match(line)
    THEN [list |-> Append(list, RosdepResolvedPackageInfo(rosdep_head_group(line),
                                                          <<>>, <<>>)),
          error |-> NoError]
    ELSE IF method_match(line)
    THEN IF Len(list) = 0
         THEN [list |-> list, error |-> RuntimeError(MethodBeforeName, <<>>)]
         ELSE [list |-> SetLast(list, "method", method_group(line)), error |-> NoError]
    ELSE IF Len(list) = 0
         THEN [list |-> list, error |-> NoError]
         ELSE [list |-> SetLast(list, "resolved_names", Split(line, SP)),
               error |-> NoError]

\* the body of the loop over lines (113-134): the list after it, or the error raised
ParseStep(list, line) ==
    IF rosdep_head_match(line)
    THEN [list |-> Append(list, RosdepResolvedPackageInfo(rosdep_head_group(line),
                                                          <<>>, <<>>)),
          error |-> NoError]
    ELSE IF method_match(line)
    THEN IF Len(list) = 0
         THEN [list |-> list, error |-> RuntimeError(MethodBeforeName, <<>>)]
         ELSE [list |-> SetLast(list, "method", method_group(line)), error |-> NoError]
    ELSE IF Len(list) = 0
         THEN [list |-> list, error |-> RuntimeError(NameBeforeName, <<>>)]
         ELSE [list |-> SetLast(list, "resolved_names", Split(line, SP)),
               error |-> NoError]

\* one iteration of the loop over lines
ParseLine ==
    /\ pc = "parse_rosdep"
    /\ pos < Len(lines)
    /\ LET r == ParseStep(package_info_list, lines[pos + 1])
       IN  IF r.error # NoError
           THEN /\ pc' = "failed"
                /\ error' = r.error
                /\ UNCHANGED <<package_info_list, pos>>
           ELSE /\ package_info_list' = r.list
                /\ pos' = pos + 1
                /\ UNCHANGED <<pc, error>>
    /\ UNCHANGED <<options, environ, rosdep_db, rosdep_packages, lines, resolved_package_list,
                   manifest, dependencies, apt_file, pip_file, runs, first_files>>

\* lines 136-139: the list becomes a dict, the dict is sorted by key and returned
ParseReturn ==
    /\ pc = "parse_rosdep"
    /\ pos = Len(lines)
    /\ resolved_package_list' = SortItems(ListToDict(package_info_list))
    /\ pc' = AfterParse
    /\ pos' = 0
    /\ UNCHANGED <<options, environ, rosdep_db, rosdep_packages, lines, package_info_list,
                   manifest, dependencies, apt_file, pip_file, error, runs, first_files>>

---------------------------------------------------------------------------
(* run_rosdep_key and rosdep_key_and_resolve. *)

\* the keys `rosdep keys` may list
Keys == {<<"b">>, <<"a", "b">>}

RECURSIVE SeqsUpTo(_, _)
\* every sequence over S of length at most n
SeqsUpTo(S, n) ==
    IF n = 0 THEN {<<>>}
    ELSE LET shorter == SeqsUpTo(S, n - 1)
         IN  shorter \cup {Append(s, x) : s \in shorter, x \in S}

\* stdout of `rosdep keys`: one key per line
KeysStdout(listing) == Flatten([i \in 1..Len(listing) |-> listing[i] \o <<NL>>])

NotAsked == [returncode |-> -1, stdout |-> <<>>]

\* what one call of `rosdep resolve` may answer
ResolveResults ==
    { [returncode |-> 1, stdout |-> <<>>],
      [returncode |-> 0,
       stdout |-> <<"#", "a", "p", "t", NL, "f", "1", SP, "f", "2", NL>>],
      [returncode |-> 0,
       stdout |-> <<"#", "p", "i", "p", NL, SP, NL, "p", "y", NL>>],
      [returncode |-> 0, stdout |-> <<"z", NL>>] }

\* f"#ROSDEP[{rosdep_package}]"
HeaderLine(rosdep_package) == ROSDEP_HEAD \o rosdep_package \o <<"]">>

\* lines 59-63: the key list on success; on a non-zero return code the local
\* rosdep_packages is unbound at the return statement
RunRosdepKey ==
    /\ pc = "run_rosdep_key"
    /\ \/ /\ \E listing \in SeqsUpTo(Keys, MaxKeys) :
                 rosdep_packages' = NonBlankLines(KeysStdout(listing))
          /\ pc' = "resolve"
          /\ UNCHANGED error
       \/ /\ pc' = "failed"
          /\ error' = [msg |-> "UnboundLocalError: rosdep_packages", args |-> <<>>]
          /\ UNCHANGED rosdep_packages
    /\ UNCHANGED <<options, environ, rosdep_db, pos, lines, package_info_list,
                   resolved_package_list, manifest, dependencies, apt_file, pip_file,
                   runs, first_files>>

\* lines 90-94: the block one successful call adds
EachPackage(rosdep_package, result) ==
    <<HeaderLine(rosdep_package)>> \o NonBlankLines(result.stdout)

\* the block added whatever the return code was
ResolvedBlockNoSkip(rosdep_package, result) == EachPackage(rosdep_package, result)

\* lines 85-94: what one iteration adds to lines
ResolvedBlock(rosdep_package, result) ==
    IF result.returncode # 0 THEN <<>> ELSE EachPackage(rosdep_package, result)

\* one iteration of the loop over rosdep_packages: line 74 raises KeyError when
\* ROS_DISTRO is not set; the same key is answered the same way throughout a run
ResolveKey ==
    /\ pc = "resolve"
    /\ pos < Len(rosdep_packages)
    /\ IF "ROS_DISTRO" \notin environ
       THEN /\ pc' = "failed"
            /\ error' = [msg |-> "KeyError: 'ROS_DISTRO'", args |-> <<>>]
            /\ UNCHANGED <<rosdep_db, lines, pos>>
       ELSE /\ LET rosdep_package == rosdep_packages[pos + 1]
               IN  \E result \in ResolveResults :
                       /\ rosdep_db[rosdep_package] \in {NotAsked, result}
                       /\ rosdep_db' = [rosdep_db EXCEPT ![rosdep_package] = result]
                       /\ lines' = lines \o ResolvedBlock(rosdep_package, result)
            /\ pos' = pos + 1
            /\ UNCHANGED <<pc, error>>
    /\ UNCHANGED <<options, environ, rosdep_packages, package_info_list,
                   resolved_package_list, manifest, dependencies, apt_file, pip_file,
                   runs, first_files>>

\* line 95, and main's call of parse_rosdep on the result (line 209)
ResolveReturn ==
    /\ pc = "resolve"
    /\ pos = Len(rosdep_packages)
    /\ pc' = "parse_rosdep"
    /\ pos' = 0
    /\ UNCHANGED <<options, environ, rosdep_db, rosdep_packages, lines, package_info_list,
                   resolved_package_list, manifest, dependencies, apt_file, pip_file,
                   error, runs, first_files>>

---------------------------------------------------------------------------
(* extract_fixed_version_depend_from_package_xml. *)

dependency_tags ==
    <<"build_depend", "build_export_depend", "buildtool_depend",
      "buildtool_export_depend", "exec_depend", "depend", "doc_depend", "test_depend">>

supported_version_attributes == <<"version_eq">>

\* the four attributes of lines 31-36 draw a printed warning only (154-158),
\* which leaves the scan as it is
unsupported_version_attributes ==
    <<"version_gte", "version_gt", "version_lte", "version_lt">>

\* the one attribute the loop at line 159 looks for
VERSION_EQ == supported_version_attributes[1]

Element(tag, text, attrib) == [tag |-> tag, text |-> text, attrib |-> attrib]

Attr(name, value) == [key |-> name, value |-> value]

RECURSIVE SelectTag(_, _)
\* root.findall(tag): the children with that tag, in document order
SelectTag(children, tag) ==
    IF children = <<>> THEN <<>>
    ELSE (IF Head(children).tag = tag THEN <<Head(children)>> ELSE <<>>)
         \o SelectTag(Tail(children), tag)

RECURSIVE ScanFrom(_, _)
ScanFrom(children, t) ==
    IF t > Len(dependency_tags) THEN <<>>
    ELSE SelectTag(children, dependency_tags[t]) \o ScanFrom(children, t + 1)

\* the elements in document order, whatever their tag
ScanOrderDocument(children) == children

\* the elements in the order the two nested loops (lines 152-153) reach them
ScanOrder(children) == ScanFrom(children, 1)

DuplicatedVersion == "ERROR: Duplicated dependency version found"

\* the package.xml files a run of main may be given
MainElements ==
    { Element("build_depend", <<"b">>, <<Attr("version_eq", <<"1">>)>>),
      Element("depend", <<"b">>, <<Attr("version_eq", <<"2">>)>>),
      Element("exec_depend", <<"a", "b">>, <<Attr("version_eq", <<"1">>)>>),
      Element("test_depend", <<"c">>, <<Attr("version_eq", <<"2">>)>>),
      Element("depend", <<"a", "b">>, <<Attr("version_gte", <<"1">>)>>) }

\* lines 148-151: the manifest is read and the dict starts empty
ParseXml ==
    /\ pc = "parse_xml"
    /\ \/ /\ manifest' \in SeqsUpTo(MainElements, MaxDeps)
          /\ dependencies' = <<>>
          /\ pc' = "extract"
          /\ pos' = 0
          /\ UNCHANGED error
       \/ /\ pc' = "failed"
          /\ error' = [msg |-> "ParseError", args |-> <<>>]
          /\ UNCHANGED <<manifest, dependencies, pos>>
    /\ UNCHANGED <<options, environ, rosdep_db, rosdep_packages, lines, package_info_list,
                   resolved_package_list, apt_file, pip_file, runs, first_files>>

\* the pair is collected without looking for an earlier one
RecordVersionUnchecked(deps, dep) ==
    IF VERSION_EQ \notin DictKeys(dep.attrib)
    THEN [dependencies |-> deps, error |-> NoError]
    ELSE [dependencies |->
              Append(deps, [key |-> dep.text, value |-> DictGet(dep.attrib, VERSION_EQ)]),
          error |-> NoError]

\* lines 159-165 for one element: the dict, or the error raised
RecordVersion(deps, dep) ==
    IF VERSION_EQ \notin DictKeys(dep.attrib)
    THEN [dependencies |-> deps, error |-> NoError]
    ELSE IF dep.text \in DictKeys(deps)
    THEN [dependencies |-> deps,
          error |-> RuntimeError(DuplicatedVersion,
                                 <<DictGet(deps, dep.text),
                                   DictGet(dep.attrib, VERSION_EQ), dep.text>>)]
    ELSE [dependencies |-> DictSet(deps, dep.text, DictGet(dep.attrib, VERSION_EQ)),
          error |-> NoError]

\* one dependency element (the body of the loop at line 153)
ExtractDep ==
    /\ pc = "extract"
    /\ pos < Len(ScanOrder(manifest))
    /\ LET r == RecordVersion(dependencies, ScanOrder(manifest)[pos + 1])
       IN  IF r.error # NoError
           THEN /\ pc' = "failed"
                /\ error' = r.error
                /\ UNCHANGED <<dependencies, pos>>
           ELSE /\ dependencies' = r.dependencies
                /\ pos' = pos + 1
                /\ UNCHANGED <<pc, error>>
    /\ UNCHANGED <<options, environ, rosdep_db, rosdep_packages, lines, package_info_list,
                   resolved_package_list, manifest, apt_file, pip_file, runs,
                   first_files>>

\* where the merge-and-emit step starts (lines 224 and 235)
MergeStart == IF dependencies = <<>> THEN "output_apt" ELSE "merge"

\* line 166: the dict is returned to main as fixed_version_depends
ExtractReturn ==
    /\ pc = "extract"
    /\ pos = Len(ScanOrder(manifest))
    /\ pc' = MergeStart
    /\ pos' = 0
    /\ UNCHANGED <<options, environ, rosdep_db, rosdep_packages, lines, package_info_list,
                   resolved_package_list, manifest, dependencies, apt_file, pip_file,
                   error, runs, first_files>>

---------------------------------------------------------------------------
(* main: merge and emit. *)

\* an unknown key gets an entry of its own
MergeOneCreates(mapping, key, value) ==
    IF key \notin DictKeys(mapping)
    THEN Append(mapping,
                [key |-> key,
                 value |-> [RosdepResolvedPackageInfo(key, <<>>, <<>>)
                                EXCEPT !.target_versions = <<value>>]])
    ELSE [i \in 1..Len(mapping) |->
            IF mapping[i].key = key
            THEN [mapping[i] EXCEPT !.value.target_versions = Append(@, value)]
            ELSE mapping[i]]

\* lines 225-227 for one (key, value) of fixed_version_depends
MergeOne(mapping, key, value) ==
    IF key \notin DictKeys(mapping) THEN mapping
    ELSE [i \in 1..Len(mapping) |->
            IF mapping[i].key = key
            THEN [mapping[i] EXCEPT !.value.target_versions = Append(@, value)]
            ELSE mapping[i]]

\* one iteration of the loop at line 224
MergePair ==
    /\ pc = "merge"
    /\ pos < Len(dependencies)
    /\ resolved_package_list' =
           MergeOne(resolved_package_list, dependencies[pos + 1].key,
                    dependencies[pos + 1].value)
    /\ pos' = pos + 1
    /\ pc' = IF pos + 1 = Len(dependencies) THEN "output_apt" ELSE "merge"
    /\ UNCHANGED <<options, environ, rosdep_db, rosdep_packages, lines, package_info_list,
                   manifest, dependencies, apt_file, pip_file, error, runs, first_files>>

APT_PIN == <<"=">>
PIP_PIN == <<"=", "=">>

\* every pin written the apt way
PackageTextAptPin(package, pin) ==
    IF package.target_versions = <<>>
    THEN Flatten([n \in 1..Len(package.resolved_names) |->
                    package.resolved_names[n] \o <<NL>>])
    ELSE Flatten([n \in 1..Len(package.resolved_names) |->
                    package.resolved_names[n] \o APT_PIN \o package.target_versions[1]
                    \o <<NL>>])

\* the text built for one package (lines 239-245 and 258-264)
PackageText(package, pin) ==
    IF package.target_versions = <<>>
    THEN Flatten([n \in 1..Len(package.resolved_names) |->
                    package.resolved_names[n] \o <<NL>>])
    ELSE Flatten([n \in 1..Len(package.resolved_names) |->
                    package.resolved_names[n] \o pin \o package.target_versions[1]
                    \o <<NL>>])

MultipleVersions == "Error: Multiple target versions found for apt package"

RECURSIVE WriteAll(_, _, _, _)
RECURSIVE WriteAllFirstVersion(_, _, _, _)
\* the first of several versions is written instead of raising
WriteAllFirstVersion(mapping, method, pin, data) ==
    IF mapping = <<>> THEN [data |-> data, error |-> NoError]
    ELSE LET package == Head(mapping).value
         IN  IF package.method # method
             THEN WriteAllFirstVersion(Tail(mapping), method, pin, data)
             ELSE WriteAllFirstVersion(Tail(mapping), method, pin,
                                       data \o PackageText(package, pin))

\* the loop inside `with open(path, "w") as f`: what the file holds when the
\* block is left, and the error that left it
WriteAll(mapping, method, pin, data) ==
    IF mapping = <<>> THEN [data |-> data, error |-> NoError]
    ELSE LET package == Head(mapping).value
         IN  IF package.method # method
             THEN WriteAll(Tail(mapping), method, pin, data)
             ELSE IF Len(package.target_versions) > 1
             THEN [data |-> data,
                   error |-> RuntimeError(MultipleVersions, <<package.ros_pkg_name>>)]
             ELSE WriteAll(Tail(mapping), method, pin,
                           data \o PackageText(package, pin))

\* the file opened for appending
OpenAppend(content) == content

\* open(path, "w"): what the file holds once it is open
OpenWrite(content) == <<>>

\* lines 235-253
OutputApt ==
    /\ pc = "output_apt"
    /\ IF options.output_apt = ""
       THEN /\ pc' = "output_pip"
            /\ UNCHANGED <<apt_file, error>>
       ELSE LET w == WriteAll(resolved_package_list, METHOD_APT, APT_PIN, OpenWrite(apt_file))
            IN  /\ apt_file' = w.data
                /\ error' = w.error
                /\ pc' = IF w.error # NoError THEN "failed" ELSE "output_pip"
    /\ UNCHANGED <<options, environ, rosdep_db, rosdep_packages, pos, lines, package_info_list,
                   resolved_package_list, manifest, dependencies, pip_file, runs,
                   first_files>>

\* lines 254-272
OutputPip ==
    /\ pc = "output_pip"
    /\ IF options.output_pip = ""
       THEN /\ pc' = "done"
            /\ UNCHANGED <<pip_file, error>>
       ELSE LET w == WriteAll(resolved_package_list, METHOD_PIP, PIP_PIN, OpenWrite(pip_file))
            IN  /\ pip_file' = w.data
                /\ error' = w.error
                /\ pc' = IF w.error # NoError THEN "failed" ELSE "done"
    /\ runs' = IF pc' = "done" THEN runs + 1 ELSE runs
    /\ first_files' = IF runs = 0 /\ pc' = "done" THEN <<apt_file, pip_file'>>
                      ELSE first_files
    /\ UNCHANGED <<options, environ, rosdep_db, rosdep_packages, pos, lines, package_info_list,
                   resolved_package_list, manifest, dependencies, apt_file>>

\* lines 224-272 once more, over the same mapping and the same fixed versions
RunAgain ==
    /\ pc = "done"
    /\ runs < MaxRuns
    /\ pc' = MergeStart
    /\ pos' = 0
    /\ UNCHANGED <<options, environ, rosdep_db, rosdep_packages, lines, package_info_list,
                   resolved_package_list, manifest, dependencies, apt_file, pip_file,
                   error, runs, first_files>>

---------------------------------------------------------------------------
(* Specifications. *)

Paths(name) == {"", name}

Blank ==
    /\ rosdep_db = [k \in Keys |-> NotAsked]
    /\ rosdep_packages = <<>>
    /\ pos = 0
    /\ package_info_list = <<>>
    /\ resolved_package_list = <<>>
    /\ dependencies = <<>>
    /\ apt_file = <<>>
    /\ pip_file = <<>>
    /\ error = NoError
    /\ runs = 0
    /\ first_files = <<>>

\* main after optparse (line 199)
Init ==
    /\ pc = "run_rosdep_key"
    /\ options \in [fixed_package_xml : Paths("package.xml"),
                    output_apt : Paths("apt.txt"), output_pip : Paths("pip.txt")]
    /\ environ \in SUBSET {"ROS_DISTRO"}
    /\ lines = <<>>
    /\ manifest = <<>>
    /\ Blank

Next ==
    \/ RunRosdepKey
    \/ ResolveKey
    \/ ResolveReturn
    \/ ParseLine
    \/ ParseReturn
    \/ ParseXml
    \/ ExtractDep
    \/ ExtractReturn
    \/ MergePair
    \/ OutputApt
    \/ OutputPip

\* one run of main
Spec == Init /\ [][Next]_vars

NextRerun == Next \/ RunAgain

\* main, with the merge-and-emit step run again over the mapping it has merged
SpecRerun == Init /\ [][NextRerun]_vars

\* the lines parse_rosdep is given when it is exercised on its own: headers,
\* method markers, names, and a names line that holds a marker
ParseLines ==
    { HeaderLine(<<"b">>), HeaderLine(<<"a", "b">>), HeaderLine(<<"a">>),
      <<"#", "a", "p", "t">>, <<"#", "p", "i", "p">>,
      <<"f", "1", SP, "f", "2">>, <<"z">>, <<"z", SP, "#", "p", "i", "p">> }

NoOptions == [fixed_package_xml |-> "", output_apt |-> "", output_pip |-> ""]

\* parse_rosdep called on any sequence of non-blank lines
InitParse ==
    /\ pc = "parse_rosdep"
    /\ options = NoOptions
    /\ environ = {"ROS_DISTRO"}
    /\ lines \in SeqsUpTo(ParseLines, MaxLines)
    /\ manifest = <<>>
    /\ Blank

NextParse == ParseLine \/ ParseReturn

SpecParse == InitParse /\ [][NextParse]_vars

\* the dependency elements of a package.xml scanned on its own
UnitElements ==
    { Element(tag, text, attrib) :
        tag \in {"build_depend", "depend", "test_depend", "license"},
        text \in {<<"b">>, <<"c">>},
        attrib \in { <<>>,
                     <<Attr("version_eq", <<"1">>)>>,
                     <<Attr("version_eq", <<"2">>)>>,
                     <<Attr("version_gte", <<"1">>)>>,
                     <<Attr("version_gte", <<"1">>), Attr("version_eq", <<"1">>)>> } }

\* extract_fixed_version_depend_from_package_xml called on any such manifest
InitExtract ==
    /\ pc = "extract"
    /\ options = [NoOptions EXCEPT !.fixed_package_xml = "package.xml"]
    /\ environ = {"ROS_DISTRO"}
    /\ lines = <<>>
    /\ manifest \in SeqsUpTo(UnitElements, MaxElems)
    /\ Blank

NextExtract == ExtractDep \/ ExtractReturn

SpecExtract == InitExtract /\ [][NextExtract]_vars

---------------------------------------------------------------------------
(* Properties of parse_rosdep, checked under SpecParse. *)

\* the keys named by the header lines of ls
HeaderKeys(ls) ==
    {rosdep_head_group(ls[i]) : i \in {j \in 1..Len(ls) : rosdep_head_match(ls[j])}}

\* no method line and no names line comes before the first header line
HeaderFirst(ls) == ls = <<>> \/ rosdep_head_match(ls[1])

\* parse_rosdep has returned its mapping to main
ParseReturned == pc \in {"parse_xml", "output_apt"}

\* iterating the mapping yields its keys in ascending order
Ascending(mapping) ==
    \A i \in 1..(Len(mapping) - 1) : StrLess(mapping[i].key, mapping[i + 1].key)

\* C1: for every sequence of non-blank lines whose first line is a header
\* line, parse_rosdep returns a mapping; its key set is the set of the keys of
\* the header lines, and it is iterated in ascending lexicographic key order.
C1_KeysAreHeadersSorted ==
    (pc # "parse_rosdep" /\ HeaderFirst(lines)) =>
        /\ ParseReturned
        /\ DictKeys(resolved_package_list) = HeaderKeys(lines)
        /\ Len(resolved_package_list) = Cardinality(HeaderKeys(lines))
        /\ Ascending(resolved_package_list)

\* C1 witness: a mapping of two keys was returned for headers that came in
\* descending order, one of them twice.
C1_Witness ==
    /\ ParseReturned
    /\ Len(lines) = 4
    /\ Len(resolved_package_list) = 2
    /\ \A i \in 1..3 : rosdep_head_match(lines[i])
    /\ StrLess(rosdep_head_group(lines[2]), rosdep_head_group(lines[1]))
    /\ lines[3] = lines[1]

\* C2: for every line sequence whose first line is not a header line,
\* parse_rosdep raises the structural error at that line (the method message
\* for a method line, the name message for a names line) and returns no
\* mapping, whatever lines follow.
C2_NoHeaderFirstFails ==
    (lines # <<>> /\ ~rosdep_head_match(lines[1])) =>
        /\ pc \in {"parse_rosdep", "failed"}
        /\ pc = "parse_rosdep" => pos = 0
        /\ pc = "failed" =>
              error = RuntimeError(IF method_match(lines[1]) THEN MethodBeforeName
                                   ELSE NameBeforeName, <<>>)
        /\ resolved_package_list = <<>>

\* C2 witness: a names line came first, header lines followed, and the parse
\* failed with the name message.
C2_Witness ==
    /\ pc = "failed"
    /\ error.msg = NameBeforeName
    /\ Len(lines) >= 3
    /\ rosdep_head_match(lines[2])
    /\ method_match(lines[3])

Last(list) == list[Len(list)]

RECURSIVE BlockMethod(_, _, _)
\* the marker of the last method line in the block that starts after line h,
\* or the unset method
BlockMethod(ls, h, m) ==
    IF h >= Len(ls) \/ rosdep_head_match(ls[h + 1]) THEN m
    ELSE BlockMethod(ls, h + 1,
                     IF method_match(ls[h + 1]) THEN method_group(ls[h + 1]) ELSE m)

\* the header line that made the returned entry for key k: the last one naming k
LastHeader(ls, k) ==
    CHOOSE h \in 1..Len(ls) :
        /\ rosdep_head_match(ls[h]) /\ rosdep_head_group(ls[h]) = k
        /\ \A g \in (h + 1)..Len(ls) :
               ~(rosdep_head_match(ls[g]) /\ rosdep_head_group(ls[g]) = k)

\* the block of the returned entry for key k holds no method line
NoMarker(ls, k) == BlockMethod(ls, LastHeader(ls, k), <<>>) = <<>>

UnmarkedStayUnset ==
    ParseReturned =>
        \A i \in 1..Len(resolved_package_list) :
            NoMarker(lines, resolved_package_list[i].key)
                => resolved_package_list[i].value.method = <<>>

\* C9 as stated: once the method of the entry being filled is set, no later
\* line of its block changes it, and an entry whose block holds no method
\* marker is returned with an unset method.
C9_MethodSetAtMostOnce ==
    /\ []UnmarkedStayUnset
    /\ [][(/\ pc = "parse_rosdep"
           /\ package_info_list # <<>>
           /\ Len(package_info_list') = Len(package_info_list)
           /\ Last(package_info_list).method # <<>>)
          => Last(package_info_list').method = Last(package_info_list).method]_vars

\* C9 as amended: a method line sets the method of the most recently started
\* entry to its marker, also when that entry has a method already (the last
\* marker of a block wins); no other line changes the method of an entry
\* that exists; the returned entry has the marker of the last method line
\* of its block, and the unset method when the block holds none.
ReturnedMethodIsLastMarker ==
    ParseReturned =>
        \A i \in 1..Len(resolved_package_list) :
            resolved_package_list[i].value.method =
                BlockMethod(lines, LastHeader(lines, resolved_package_list[i].key), <<>>)

C9_LastMarkerWins ==
    /\ []ReturnedMethodIsLastMarker
    /\ [][(pc = "parse_rosdep" /\ pc' = "parse_rosdep") =>
            \A i \in 1..Len(package_info_list) :
                IF i = Len(package_info_list) /\ method_match(lines[pos + 1])
                      /\ ~rosdep_head_match(lines[pos + 1])
                THEN package_info_list'[i].method = method_group(lines[pos + 1])
                ELSE package_info_list'[i].method = package_info_list[i].method]_vars

\* C9 witness: a block held #apt and then #pip, and its entry was returned
\* with pip; another entry was returned unset.
C9_Witness ==
    /\ ParseReturned
    /\ Len(lines) = 4
    /\ lines[2] = <<"#">> \o METHOD_APT
    /\ lines[3] = <<"#">> \o METHOD_PIP
    /\ rosdep_head_match(lines[4])
    /\ Len(resolved_package_list) = 2
    /\ \E i \in 1..2 : resolved_package_list[i].value.method = METHOD_PIP
    /\ \E i \in 1..2 : resolved_package_list[i].value.method = <<>>

---------------------------------------------------------------------------
(* Properties of the manifest scan, checked under SpecExtract. *)

TagIndex(tag) == CHOOSE t \in 1..Len(dependency_tags) : dependency_tags[t] = tag

Scanned(m) == {i \in 1..Len(m) : \E t \in 1..Len(dependency_tags) : dependency_tags[t] = m[i].tag}

\* the scanned elements of the document that carry version_eq
Carriers(m) == {i \in Scanned(m) : "version_eq" \in DictKeys(m[i].attrib)}

VersionEq(m, i) == DictGet(m[i].attrib, "version_eq")

\* element i is reached before element j: an earlier tag of the eight, or
\* the same tag and earlier in the document
ReachedBefore(m, i, j) ==
    \/ TagIndex(m[i].tag) < TagIndex(m[j].tag)
    \/ TagIndex(m[i].tag) = TagIndex(m[j].tag) /\ i < j

\* j carries version_eq for a name that i, reached before it, carried it for
Clash(m, i, j) ==
    /\ i \in Carriers(m) /\ j \in Carriers(m)
    /\ ReachedBefore(m, i, j)
    /\ m[i].text = m[j].text

Clashes(m) == {p \in Carriers(m) \X Carriers(m) : Clash(m, p[1], p[2])}

ExtractReturned == pc \in {"merge", "output_apt"}

\* C6: when the scan reaches an element carrying version_eq whose name has a
\* recorded version, it raises the duplicate error, whose message holds the
\* recorded version, the new one and the name, and nothing is returned;
\* otherwise the returned mapping holds, for each name that carried
\* version_eq, exactly that one value.
C6_DuplicateOrOnePerName ==
    pc # "extract" =>
        IF Clashes(manifest) # {}
        THEN /\ pc = "failed"
             /\ \E p \in Clashes(manifest) :
                    /\ \A q \in Clashes(manifest) :
                           q[2] = p[2] \/ ReachedBefore(manifest, p[2], q[2])
                    /\ error = RuntimeError(DuplicatedVersion,
                                            <<VersionEq(manifest, p[1]),
                                              VersionEq(manifest, p[2]),
                                              manifest[p[2]].text>>)
        ELSE /\ ExtractReturned
             /\ error = NoError
             /\ DictKeys(dependencies) = {manifest[i].text : i \in Carriers(manifest)}
             /\ Len(dependencies) = Cardinality(DictKeys(dependencies))
             /\ \A i \in Carriers(manifest) :
                    DictGet(dependencies, manifest[i].text) = VersionEq(manifest, i)

\* C6 witness: the element later in the document was reached first, so its
\* version is the recorded one in the message and the other the new one.
C6_Witness ==
    /\ pc = "failed"
    /\ Len(manifest) = 2
    /\ error.msg = DuplicatedVersion
    /\ error.args[1] = VersionEq(manifest, 2)
    /\ error.args[2] = VersionEq(manifest, 1)
    /\ error.args[1] # error.args[2]

---------------------------------------------------------------------------
(* Properties of a run of main, checked under Spec. *)

RECURSIVE ExpectedLines(_)
\* per listed key in listing order: nothing when its resolve call failed,
\* else its header line and the non-blank lines of the call's output
ExpectedLines(keys) ==
    IF keys = <<>> THEN <<>>
    ELSE (IF rosdep_db[Head(keys)].returncode = 0
          THEN <<HeaderLine(Head(keys))>> \o NonBlankLines(rosdep_db[Head(keys)].stdout)
          ELSE <<>>)
         \o ExpectedLines(Tail(keys))

\* the keys whose resolve call has been made
Resolved == IF pc = "resolve" THEN SubSeq(rosdep_packages, 1, pos) ELSE rosdep_packages

\* C7: a failed resolve call does not end the loop; the lines hold no header
\* and no other line for a key whose call failed, and hold, in listing order,
\* the header and the non-blank output lines of every key whose call succeeded.
C7_FailedKeySkipped ==
    pc # "run_rosdep_key" =>
        /\ lines = ExpectedLines(Resolved)
        /\ \A i \in 1..Len(Resolved) :
               rosdep_db[Resolved[i]].returncode # 0 =>
                   \A n \in 1..Len(lines) : lines[n] # HeaderLine(Resolved[i])
        /\ pc = "resolve" => error = NoError

\* C7 witness: the first listed key failed, the second succeeded, and the
\* returned lines are the second key's block.
C7_Witness ==
    /\ pc = "parse_rosdep"
    /\ Len(rosdep_packages) = 2
    /\ rosdep_db[rosdep_packages[1]].returncode # 0
    /\ rosdep_db[rosdep_packages[2]].returncode = 0
    /\ Len(lines) = 3
    /\ lines[1] = HeaderLine(rosdep_packages[2])

\* the lines of one entry: each resolved name, pinned when a version is given
EntryLines(package, pin) ==
    Flatten([n \in 1..Len(package.resolved_names) |->
               package.resolved_names[n]
               \o (IF package.target_versions = <<>> THEN <<>>
                   ELSE pin \o package.target_versions[1])
               \o <<NL>>])

RECURSIVE ExpectedFile(_, _, _, _)
\* the entries with the given method, taken by ascending key
ExpectedFile(mapping, keys, method, pin) ==
    IF keys = {} THEN <<>>
    ELSE LET k == CHOOSE x \in keys : \A y \in keys \ {x} : StrLess(x, y)
             package == DictGet(mapping, k)
         IN  (IF package.method = method THEN EntryLines(package, pin) ELSE <<>>)
             \o ExpectedFile(mapping, keys \ {k}, method, pin)

AtMostOneVersion ==
    \A i \in 1..Len(resolved_package_list) :
        Len(resolved_package_list[i].value.target_versions) <= 1

\* C3: when no entry has more than one target version, each file whose path
\* is given holds, for the entries of its method in ascending key order, the
\* resolved names one per line, unpinned without a target version and
\* suffixed with =version (apt) or ==version (pip) with one; entries of
\* another method, or of none, add nothing.
C3_FilesAreEntriesInKeyOrder ==
    (pc = "done" /\ AtMostOneVersion) =>
        /\ options.output_apt # "" =>
               apt_file = ExpectedFile(resolved_package_list,
                                       DictKeys(resolved_package_list),
                                       METHOD_APT, <<"=">>)
        /\ options.output_pip # "" =>
               pip_file = ExpectedFile(resolved_package_list,
                                       DictKeys(resolved_package_list),
                                       METHOD_PIP, <<"=", "=">>)

\* C3 witness: both files were written; a pinned pip entry precedes, by key,
\* an apt entry, and the keys were listed in the other order.
C3_Witness ==
    /\ pc = "done"
    /\ options.output_apt # "" /\ options.output_pip # ""
    /\ rosdep_packages = <<<<"b">>, <<"a", "b">>>>
    /\ pip_file = <<"p", "y", "=", "=", "1", NL>>
    /\ apt_file = <<"f", "1", "=", "2", NL, "f", "2", "=", "2", NL>>

\* C4: one pair of the merge. A dependency name that is no key of the mapping
\* leaves the mapping as it is and raises nothing; otherwise the version is
\* appended to the target versions of that entry and nothing else changes.
C4_MergeTouchesOneEntry ==
    [][pc = "merge" =>
         LET key == dependencies[pos + 1].key
             value == dependencies[pos + 1].value
         IN  IF key \notin DictKeys(resolved_package_list)
             THEN /\ resolved_package_list' = resolved_package_list
                  /\ pc' # "failed"
                  /\ error' = NoError
             ELSE /\ Len(resolved_package_list') = Len(resolved_package_list)
                  /\ pc' # "failed"
                  /\ \A i \in 1..Len(resolved_package_list) :
                         LET old == resolved_package_list[i]
                             new == resolved_package_list'[i]
                         IN  /\ new.key = old.key
                             /\ new.value.ros_pkg_name = old.value.ros_pkg_name
                             /\ new.value.method = old.value.method
                             /\ new.value.resolved_names = old.value.resolved_names
                             /\ new.value.target_versions =
                                    IF old.key = key
                                    THEN Append(old.value.target_versions, value)
                                    ELSE old.value.target_versions]_vars

\* C4 witness: the merge is over; one pair named no key and was passed over,
\* another gave its entry a version, and a second entry has none.
C4_Witness ==
    /\ pc = "output_apt"
    /\ Len(dependencies) = 2
    /\ Len(resolved_package_list) = 2
    /\ \E i \in 1..2 : dependencies[i].key \notin DictKeys(resolved_package_list)
    /\ \E i \in 1..2 : resolved_package_list[i].value.target_versions = <<>>
    /\ \E i \in 1..2 : Len(resolved_package_list[i].value.target_versions) = 1

Emitting == pc \in {"output_apt", "output_pip", "done"}

\* C10: in a run of main every entry has at most one target version when
\* emission starts and while it lasts, and the multiple-target-versions error
\* is never raised.
C10_AtMostOneVersionAtEmission ==
    /\ Emitting => AtMostOneVersion
    /\ error.msg # MultipleVersions

\* C10 witness: emission starts with an entry that was given its one version
\* from a manifest of two elements carrying version_eq.
C10_Witness ==
    /\ pc = "output_apt"
    /\ Len(dependencies) = 2
    /\ \A i \in 1..Len(resolved_package_list) :
           Len(resolved_package_list[i].value.target_versions) = 1
    /\ Len(resolved_package_list) = 2

---------------------------------------------------------------------------
(* Properties of the merge-and-emit step run again, checked under SpecRerun. *)

\* the entries of the given method that hold more than one target version
Overfull(method) ==
    {i \in 1..Len(resolved_package_list) :
        /\ resolved_package_list[i].value.method = method
        /\ Len(resolved_package_list[i].value.target_versions) > 1}

FirstOverfull(method) ==
    CHOOSE i \in Overfull(method) : \A j \in Overfull(method) : i <= j

RECURSIVE PrefixFile(_, _, _)
\* what the entries before the first overfull one have written
PrefixFile(entries, method, pin) ==
    IF entries = <<>> THEN <<>>
    ELSE (IF Head(entries).value.method = method
          THEN EntryLines(Head(entries).value, pin) ELSE <<>>)
         \o PrefixFile(Tail(entries), method, pin)

\* C5: emission of a file whose path is given, with an entry of its method
\* holding more than one target version, ends the run with the
\* multiple-target-versions error naming that package; the file holds what
\* the entries before it wrote, and no line for that entry.
C5_MultipleVersionsFatal ==
    [][/\ (pc = "output_apt" /\ options.output_apt # "" /\ Overfull(METHOD_APT) # {}) =>
            /\ pc' = "failed"
            /\ error' = RuntimeError(MultipleVersions,
                          <<resolved_package_list[FirstOverfull(METHOD_APT)].value.ros_pkg_name>>)
            /\ apt_file' = PrefixFile(SubSeq(resolved_package_list, 1,
                                             FirstOverfull(METHOD_APT) - 1),
                                      METHOD_APT, <<"=">>)
       /\ (pc = "output_pip" /\ options.output_pip # "" /\ Overfull(METHOD_PIP) # {}) =>
            /\ pc' = "failed"
            /\ error' = RuntimeError(MultipleVersions,
                          <<resolved_package_list[FirstOverfull(METHOD_PIP)].value.ros_pkg_name>>)
            /\ pip_file' = PrefixFile(SubSeq(resolved_package_list, 1,
                                             FirstOverfull(METHOD_PIP) - 1),
                                      METHOD_PIP, <<"=", "=">>)]_vars

\* C5 witness: the apt file was being written; an unpinned entry wrote its
\* lines, then the entry with two versions ended the run.
C5_Witness ==
    /\ pc = "failed"
    /\ error = RuntimeError(MultipleVersions, <<<<"b">>>>)
    /\ apt_file = <<"f", "1", NL, "f", "2", NL>>
    /\ Overfull(METHOD_APT) # {}

\* an extracted dependency name is the key of an entry that a given path emits
Emitted(package) ==
    \/ package.method = METHOD_APT /\ options.output_apt # ""
    \/ package.method = METHOD_PIP /\ options.output_pip # ""

PinnedAndEmitted ==
    \E i \in 1..Len(dependencies), j \in 1..Len(resolved_package_list) :
        /\ dependencies[i].key = resolved_package_list[j].key
        /\ Emitted(resolved_package_list[j].value)

====
